---- MODULE Spec2Model ----
(***************************************************************************)
(* CampTrack direct messaging (src/src/camptrack/chat.py).                 *)
(*                                                                         *)
(* State: the messages table, the is_disabled flags of the users table,    *)
(* and one MessagingInterface of the user Me: its fields, the position of  *)
(* its input thread inside run / goto_chat_view, and the poller threads it *)
(* has started.                                                            *)
(*                                                                         *)
(* A message id is its position in store: ids are assigned by the table in *)
(* insertion order and chat.py deletes no row.                             *)
(*                                                                         *)
(* Specifications:                                                         *)
(*   Spec       one interface with its poller threads, statement by        *)
(*              statement, and other users sending to Me;                  *)
(*   SpecHist   the same, started on a conversation longer than a page,    *)
(*              with /more loading older windows;                          *)
(*   SpecStore  the table under the write statements of chat.py issued by  *)
(*              the interfaces of all users, and the admin's toggle.       *)
(***************************************************************************)
EXTENDS Integers, Sequences, FiniteSets, TLC

\* ---------------------------------------------------------------- bounds
\* Rows inserted during a run (by anyone), on top of the initial history.
MaxNew == 2
\* Calls of goto_chat_view during a run; each starts one poller thread.
MaxOpens == 2
\* The storage errors (sqlite3.Error) raised in a run.
MaxFaults == 1

\* The items of a list given to get_page_data, the page sizes 1..MaxPageSize
\* and the page numbers -MaxPageNumber..MaxPageNumber.
MaxItems == 12
MaxPageSize == 5
MaxPageNumber == 14
\* The days 0..MaxDay of today, start and end of a camp, and its campers.
MaxDay == 3
MaxCampers == 2
\* The units of a camp's approved daily food stock.
MaxStock == 2
\* The rows of the notifications table.
MaxRows == 3
\* The camps of the camps table, and the last day a camp may span.
MaxCamps == 3
MaxDate == 2

\* ------------------------------------------------------------- constants
\* self.user.id of the interface that is modelled.
Me == 1
\* Optional[int] None of recipient_id.
None == 0
\* self.messages_per_page
messages_per_page == 10

\* The other accounts of the users table.
Others == {2, 3}
Users == {Me} \cup Others
\* Accounts of the users table that take no step of their own: they are
\* partners of conversations that earlier sessions left in the table.
Silent == {4, 5}
Accounts == Users \cup Silent

VARIABLES
    store,          \* the messages table: Seq of rows, id = index
    disabled,       \* users with is_disabled = 1
    wlock,          \* holder of SQLite's write transaction: 0, or a poller
    is_executing,   \* MessagingInterface fields
    chatting,
    recipient_id,
    last_msg,
    history_offset,
    mpc,            \* position of the input thread (run / goto_chat_view)
    arg,            \* goto_chat_view's parameter recipient_id
    messages,       \* goto_chat_view's local `messages` (ids, in row order)
    opens,          \* number of goto_chat_view calls so far
    ppc,            \* position of each poller thread
    batch,          \* each poller's fetched rows not yet processed (ids)
    marks,          \* each poller's uncommitted UPDATEs (ids)
    shown,          \* what the chat view has printed since goto_chat_view
                    \* last cleared the screen: Seq of [id, src, off]
    news,           \* rows inserted during the run
    stmt,           \* SpecStore: the last write statement on the table
    chat_page,      \* self.chat_page
    current_page,   \* current_page of show_users_with_pagination
    faults,         \* the storage errors raised so far
    data,           \* get_page_data's parameters
    page_number,
    page_size,
    paged,          \* get_page_data's result, <<>> before the call
    today,          \* determine_status's parameters (dates as day numbers)
    s_date,
    e_date,
    has_leader,
    n_campers,
    food_sufficient,
    status,         \* determine_status's result, "none" before the call
    approved_daily_food_stock,  \* columns of the camp's row in camps
    daily_food_per_camper,
    notifications,  \* the notifications table: Seq of rows, id = index
    gen,            \* each coordinator session's nofification_generator
    leader_id,      \* camps.leader_id of every camp
    start_date,     \* camps.start_date of every camp
    end_date,       \* camps.end_date of every camp
    sel             \* each leader's select_camp_to_supervise

vars == <<store, disabled, wlock, is_executing, chatting, recipient_id,
          last_msg, history_offset, mpc, arg, messages, opens, ppc, batch,
          marks, shown, news, stmt, chat_page, current_page, faults,
          data, page_number, page_size, paged, today, s_date, e_date,
          has_leader, n_campers, food_sufficient, status,
          approved_daily_food_stock, daily_food_per_camper, notifications,
          gen, leader_id, start_date, end_date, sel>>

menuVars == <<chat_page, current_page, faults>>
pageVars == <<data, page_number, page_size, paged>>
campVars == <<today, s_date, e_date, has_leader, n_campers, food_sufficient,
              status, approved_daily_food_stock, daily_food_per_camper>>
notifVars == <<notifications, gen>>
leaderVars == <<leader_id, start_date, end_date, sel>>
utilVars == <<pageVars, campVars, notifVars, leaderVars>>
chatVars == <<store, disabled, wlock, is_executing, chatting, recipient_id,
              last_msg, history_offset, mpc, arg, messages, opens, ppc,
              batch, marks, shown, news, stmt, chat_page, current_page,
              faults>>

\* No call of get_page_data and none of determine_status is under way.
PageIdle ==
    /\ data = <<>>
    /\ page_number = 1
    /\ page_size = 1
    /\ paged = <<>>

CampIdle ==
    /\ today = 0
    /\ s_date = 0
    /\ e_date = 0
    /\ has_leader = FALSE
    /\ n_campers = 0
    /\ food_sufficient = FALSE
    /\ status = "none"
    /\ approved_daily_food_stock = 0
    /\ daily_food_per_camper = 1

\* The coordinators' sessions and the leaders' sessions.
Sessions == {1, 2}
Leaders == {1, 2}

\* No coordinator session and no leader session is running.
NotifIdle ==
    /\ notifications = <<>>
    /\ gen = [s \in Sessions |-> [pc |-> "idle"]]

LeaderIdle ==
    /\ leader_id = <<>>
    /\ start_date = <<>>
    /\ end_date = <<>>
    /\ sel = [l \in Leaders |-> [pc |-> "idle"]]

StaffIdle == NotifIdle /\ LeaderIdle

Pollers == 1..MaxOpens

\* ----------------------------------------------------------- the table

\* The row an INSERT INTO messages (sender_id, recipient_id, message) makes:
\* created_at and is_read take the table's defaults.
NewRow(s, r, text, now) ==
    [sender |-> s, recipient |-> r, body |-> text, created_at |-> now,
     is_read |-> FALSE]

\* The text of a new message: the users type a different text every time,
\* here the number of the message.
Text(st) == Len(st) + 1

\* CURRENT_TIMESTAMP at an insert, in seconds: the second of the previous
\* insert (same) or a later one. The clock never goes back.
Stamp(st, same) ==
    IF st = <<>> THEN 1
    ELSE st[Len(st)].created_at + (IF same THEN 0 ELSE 1)

\* A conversation of n rows between Me and user 2 that earlier sessions left
\* in the table, one row per second; its last two rows are still unread.
History(n) ==
    [i \in 1..n |->
        [sender |-> IF i % 2 = 1 THEN 2 ELSE Me,
         recipient |-> IF i % 2 = 1 THEN Me ELSE 2,
         body |-> i, created_at |-> i, is_read |-> (i + 2 <= n)]]

\* WHERE (sender_id = a AND recipient_id = b) OR (sender_id = b AND
\* recipient_id = a)
Conv(st, a, b) ==
    {i \in DOMAIN st :
        \/ st[i].sender = a /\ st[i].recipient = b
        \/ st[i].sender = b /\ st[i].recipient = a}

\* A count of all the rows of the table.
total_messages_with_AllRows(st, user, other) == Len(st)

total_messages_with(st, user, other) == Cardinality(Conv(st, user, other))

\* Every order in which ORDER BY key DESC may return the elements of S:
\* elements with equal keys come in an order SQL leaves open.
RECURSIVE DescOrders(_, _)
DescOrders(key, S) ==
    IF S = {} THEN {<<>>}
    ELSE LET top == {i \in S : \A j \in S : key[j] <= key[i]}
         IN UNION {{<<i>> \o rest : rest \in DescOrders(key, S \ {i})} :
                   i \in top}

CreatedAt(st) == [i \in DOMAIN st |-> st[i].created_at]

Reverse(s) == [i \in 1..Len(s) |-> s[Len(s) + 1 - i]]

Min(a, b) == IF a <= b THEN a ELSE b

\* LIMIT l OFFSET off of an ordered result.
LimitOffset(o, l, off) == SubSeq(o, off + 1, Min(off + l, Len(o)))

\* messages_with: the possible results (ids), in the order returned
\* (the query's order reversed).
messages_with(st, user, other, limit, offset) ==
    {Reverse(LimitOffset(o, limit, offset)) :
        o \in DescOrders(CreatedAt(st), Conv(st, user, other))}

\* Ascending sequence of a set of ids.
RECURSIVE AscSeq(_)
AscSeq(S) ==
    IF S = {} THEN <<>>
    ELSE LET m == CHOOSE x \in S : \A y \in S : x <= y
         IN <<m>> \o AscSeq(S \ {m})

\* The poller's SELECT: rows of the conversation with id > last, ORDER BY
\* id ASC. A recipient of None matches no row.
PollBatch(st, user, last, rid) ==
    AscSeq({i \in Conv(st, user, rid) : i > last})

\* The UPDATE without its condition on the sender.
MarkReadFrom_AnySender(st, s, r) ==
    [i \in DOMAIN st |->
        IF st[i].recipient = r
        THEN [st[i] EXCEPT !.is_read = TRUE] ELSE st[i]]

\* UPDATE messages SET is_read = 1 WHERE sender_id = s AND recipient_id = r
MarkReadFrom(st, s, r) ==
    [i \in DOMAIN st |->
        IF st[i].sender = s /\ st[i].recipient = r
        THEN [st[i] EXCEPT !.is_read = TRUE] ELSE st[i]]

\* An UPDATE that writes is_read of every row: 1 for an id of ids, else 0.
MarkReadIds_Overwrite(st, ids) ==
    [i \in DOMAIN st |-> [st[i] EXCEPT !.is_read = (i \in ids)]]

\* UPDATE messages SET is_read = 1 WHERE id = ?, for each id of ids.
MarkReadIds(st, ids) ==
    [i \in DOMAIN st |->
        IF i \in ids THEN [st[i] EXCEPT !.is_read = TRUE] ELSE st[i]]

\* send_message's INSERT.
send_message(st, user, text, to, now) == Append(st, NewRow(user, to, text, now))

\* ------------------------------------------------- the conversation list

\* chat_threads: the rows involving user, and the partner of each.
ChatThreads(st, user) ==
    {i \in DOMAIN st : st[i].sender = user \/ st[i].recipient = user}

PartnerOf(row, user) == IF row.sender = user THEN row.recipient ELSE row.sender

\* latest_in_thread WHERE msg_rank = 1: for each partner a row of the
\* partition that ROW_NUMBER() OVER (... ORDER BY timestamp DESC) may number
\* 1. The results are the functions partner -> id.
LatestInThread(st, user) ==
    LET T == ChatThreads(st, user)
        P == {PartnerOf(st[i], user) : i \in T}
        part(p) == {i \in T : PartnerOf(st[i], user) = p}
        first(p) == {i \in part(p) :
                        \A j \in part(p) : st[j].created_at <= st[i].created_at}
    IN {f \in [P -> UNION {first(p) : p \in P}] :
            \A p \in P : f[p] \in first(p)}

\* unread_totals without its condition is_read = 0.
UnreadTotals_AllRows(st, user) ==
    LET U == {i \in DOMAIN st : st[i].recipient = user}
    IN [s \in {st[i].sender : i \in U} |->
            Cardinality({i \in U : st[i].sender = s})]

\* unread_totals: COUNT(*) ... WHERE recipient_id = user AND is_read = 0
\* GROUP BY sender_id. A function on the senders that have such a row.
UnreadTotals(st, user) ==
    LET U == {i \in DOMAIN st : st[i].recipient = user /\ ~st[i].is_read}
    IN [s \in {st[i].sender : i \in U} |->
            Cardinality({i \in U : st[i].sender = s})]

\* The final SELECT of chats(): the possible results, each a sequence of
\* rows. lt_id is the id of the row of messages the result row was made
\* from (the query does not select it).
chats(st, dis, user, limit, offset) ==
    LET ut == UnreadTotals(st, user)
        row(f, p) ==
            [chat_partner_id |-> p,
             sender_id |-> st[f[p]].sender,
             message |-> st[f[p]].body,
             timestamp |-> st[f[p]].created_at,
             num_unread |-> IF p \in DOMAIN ut THEN ut[p] ELSE 0,
             lt_id |-> f[p]]
        joined(f) == {p \in DOMAIN f : p \in Accounts \ dis}
        ordered(f) ==
            DescOrders([p \in DOMAIN f |-> st[f[p]].created_at], joined(f))
        cut(o) == IF limit # None THEN LimitOffset(o, limit, offset) ELSE o
    IN UNION {{[i \in 1..Len(cut(o)) |-> row(f, cut(o)[i])] : o \in ordered(f)} :
              f \in LatestInThread(st, user)}

\* total_chats(): COUNT(DISTINCT partner) over the rows involving user whose
\* partner is not disabled.
total_chats(st, dis, user) ==
    Cardinality({PartnerOf(st[i], user) : i \in ChatThreads(st, user)}
                \cap (Accounts \ dis))

\* ---------------------------------------------------------------- Init

Idle ==
    /\ disabled = {}
    /\ wlock = 0
    /\ is_executing = TRUE
    /\ chatting = FALSE
    /\ recipient_id = None
    /\ last_msg = 0
    /\ history_offset = 0
    /\ mpc = "menu"
    /\ arg = None
    /\ messages = <<>>
    /\ opens = 0
    /\ ppc = [k \in Pollers |-> "unborn"]
    /\ batch = [k \in Pollers |-> <<>>]
    /\ marks = [k \in Pollers |-> {}]
    /\ shown = <<>>
    /\ news = 0
    /\ stmt = [kind |-> "none", reread |-> FALSE]
    /\ chat_page = 0
    /\ current_page = 0
    /\ faults = 0

Init == store = <<>> /\ Idle /\ PageIdle /\ CampIdle /\ StaffIdle

\* A run in which every chat but the last has been opened and closed and
\* its poller has exited; InitHist: on a conversation of one row more than
\* a page.
LastChat ==
    /\ disabled = {}
    /\ wlock = 0
    /\ is_executing = TRUE
    /\ chatting = FALSE
    /\ recipient_id = None
    /\ last_msg = 0
    /\ history_offset = 0
    /\ mpc = "menu"
    /\ arg = None
    /\ messages = <<>>
    /\ opens = MaxOpens - 1
    /\ ppc = [k \in Pollers |-> IF k < MaxOpens THEN "done" ELSE "unborn"]
    /\ batch = [k \in Pollers |-> <<>>]
    /\ marks = [k \in Pollers |-> {}]
    /\ shown = <<>>
    /\ news = 0
    /\ stmt = [kind |-> "none", reread |-> FALSE]
    /\ chat_page = 0
    /\ current_page = 0
    /\ faults = 0

InitHist ==
    /\ store = History(messages_per_page + 1)
    /\ LastChat
    /\ PageIdle
    /\ CampIdle
    /\ StaffIdle

\* ----------------------------------------------------- the input thread

ifaceVars == <<is_executing, chatting, recipient_id, last_msg, history_offset>>
pollVars == <<ppc, batch, marks>>

\* goto_chat_view(p) up to the bulk UPDATE.
GotoChatView(p) ==
    /\ opens < MaxOpens
    /\ chatting' = TRUE
    /\ recipient_id' = p
    /\ history_offset' = 0
    /\ arg' = p
    /\ opens' = opens + 1
    /\ mpc' = "g_update"
    /\ UNCHANGED <<store, disabled, wlock, is_executing, last_msg, messages,
                   shown, news>>
    /\ UNCHANGED <<pollVars, stmt, faults, utilVars>>

\* run, commands o / u / digit with a valid choice: a chat with a user that
\* is not disabled is opened.
OpenChat(p) ==
    /\ mpc = "menu"
    /\ p \in Others \ disabled
    /\ GotoChatView(p)
    /\ UNCHANGED <<chat_page, current_page>>

\* goto_chat_view: update read receipt.
GUpdate ==
    /\ mpc = "g_update"
    /\ wlock = 0
    /\ store' = MarkReadFrom(store, arg, Me)
    /\ mpc' = "g_query"
    /\ UNCHANGED <<disabled, wlock, arg, messages, opens, shown, news>>
    /\ UNCHANGED <<ifaceVars, pollVars, stmt>>
    /\ UNCHANGED <<menuVars, utilVars>>

\* goto_chat_view: total_messages_with and messages_with, the initial window.
GQuery ==
    /\ mpc = "g_query"
    /\ \E w \in messages_with(store, Me, arg, messages_per_page,
                              history_offset) :
          messages' = w
    /\ mpc' = "g_show"
    /\ UNCHANGED <<store, disabled, wlock, arg, opens, shown, news>>
    /\ UNCHANGED <<ifaceVars, pollVars, stmt>>
    /\ UNCHANGED <<menuVars, utilVars>>

\* The printed lines of a result w.
Entries(w, src, off) ==
    [i \in 1..Len(w) |-> [id |-> w[i], src |-> src, off |-> off]]

\* goto_chat_view: record last_msg, clear the screen, print the window.
GShow ==
    /\ mpc = "g_show"
    /\ last_msg' = IF messages # <<>> THEN messages[Len(messages)] ELSE 0
    /\ shown' = Entries(messages, "window", 0)
    /\ mpc' = "g_start"
    /\ UNCHANGED <<store, disabled, wlock, is_executing, chatting,
                   recipient_id, history_offset, arg, messages, opens, news>>
    /\ UNCHANGED <<pollVars, stmt>>
    /\ UNCHANGED <<menuVars, utilVars>>

\* goto_chat_view: start the poller thread.
GStart ==
    /\ mpc = "g_start"
    /\ ppc' = [ppc EXCEPT ![opens] = "test"]
    /\ mpc' = "input"
    /\ messages' = <<>>
    /\ UNCHANGED <<store, disabled, wlock, arg, opens, shown, news, batch,
                   marks>>
    /\ UNCHANGED <<ifaceVars, stmt>>
    /\ UNCHANGED <<menuVars, utilVars>>

\* Input /b, /back, /q, /quit, /exit.
ChatClose ==
    /\ mpc = "input"
    /\ chatting' = FALSE
    /\ mpc' = "close"
    /\ UNCHANGED <<store, disabled, wlock, is_executing, recipient_id,
                   last_msg, history_offset, arg, messages, opens, shown,
                   news>>
    /\ UNCHANGED <<pollVars, stmt>>
    /\ UNCHANGED <<menuVars, utilVars>>

\* goto_chat_view after its loop.
ChatCleanup ==
    /\ mpc = "close"
    /\ recipient_id' = None
    /\ last_msg' = 0
    /\ arg' = None
    /\ mpc' = "menu"
    /\ UNCHANGED <<store, disabled, wlock, is_executing, chatting,
                   history_offset, messages, opens, shown, news>>
    /\ UNCHANGED <<pollVars, stmt>>
    /\ UNCHANGED <<menuVars, utilVars>>

\* Input: a text that is no command; send_message(message, recipient_id).
ChatSendText(message, same) ==
    /\ mpc = "input"
    /\ wlock = 0
    /\ news < MaxNew
    /\ store' = send_message(store, Me, message, arg, Stamp(store, same))
    /\ news' = news + 1
    /\ UNCHANGED <<disabled, wlock, mpc, arg, messages, opens, shown>>
    /\ UNCHANGED <<ifaceVars, pollVars, stmt>>
    /\ UNCHANGED <<menuVars, utilVars>>

ChatSend(same) == ChatSendText(Text(store), same)

\* Input /m, /more: get_older_messages_from up to its query.
ChatMore ==
    /\ mpc = "input"
    /\ UNCHANGED <<store, disabled, wlock, arg, messages, opens, shown, news>>
    /\ UNCHANGED <<ifaceVars, pollVars, stmt>>
    /\ mpc' = IF total_messages_with(store, Me, arg)
                    <= history_offset + messages_per_page
              THEN "input" ELSE "more"
    /\ UNCHANGED <<menuVars, utilVars>>

\* get_older_messages_from: the query and the printing of the older window.
ChatMoreQuery ==
    /\ mpc = "more"
    /\ LET offset == history_offset + messages_per_page
       IN \E w \in messages_with(store, Me, arg, messages_per_page, offset) :
            IF w # <<>>
            THEN /\ history_offset' = offset
                 /\ shown' = shown \o Entries(w, "more", offset)
            ELSE UNCHANGED <<history_offset, shown>>
    /\ mpc' = "input"
    /\ UNCHANGED <<store, disabled, wlock, is_executing, chatting,
                   recipient_id, last_msg, arg, messages, opens, news>>
    /\ UNCHANGED <<pollVars, stmt>>
    /\ UNCHANGED <<menuVars, utilVars>>

\* run, commands b / q.
MenuQuit ==
    /\ mpc = "menu"
    /\ is_executing' = FALSE
    /\ mpc' = "exited"
    /\ UNCHANGED <<store, disabled, wlock, chatting, recipient_id, last_msg,
                   history_offset, arg, messages, opens, shown, news>>
    /\ UNCHANGED <<pollVars, stmt>>
    /\ UNCHANGED <<menuVars, utilVars>>

\* ---------------------------------------------------- a poller thread

\* while self.is_executing and self.chatting
PTest(k) ==
    /\ ppc[k] = "test"
    /\ ppc' = [ppc EXCEPT ![k] = IF is_executing /\ chatting
                                 THEN "query" ELSE "done"]
    /\ UNCHANGED <<store, disabled, wlock, mpc, arg, messages, opens, shown,
                   news, batch, marks>>
    /\ UNCHANGED <<ifaceVars, stmt>>
    /\ UNCHANGED <<menuVars, utilVars>>

\* The SELECT of one iteration; an empty result ends the iteration (commit
\* of nothing, sleep).
PQuery(k) ==
    /\ ppc[k] = "query"
    /\ LET rows == PollBatch(store, Me, last_msg, recipient_id)
       IN /\ batch' = [batch EXCEPT ![k] = rows]
          /\ ppc' = [ppc EXCEPT ![k] = IF rows = <<>> THEN "test" ELSE "show"]
    /\ UNCHANGED <<store, disabled, wlock, mpc, arg, messages, opens, shown,
                   news, marks>>
    /\ UNCHANGED <<ifaceVars, stmt>>
    /\ UNCHANGED <<menuVars, utilVars>>

\* A poller that renders a row only while no send_message is under way.
PShow_WaitsForLock(k) ==
    /\ mpc # "send"
    /\ ppc[k] = "show"
    /\ LET row == Head(batch[k])
           mark == recipient_id = store[row].sender
       IN /\ mark => wlock \in {0, k}
          /\ shown' = Append(shown, [id |-> row, src |-> "live", off |-> k])
          /\ marks' = [marks EXCEPT ![k] = IF mark THEN @ \cup {row} ELSE @]
          /\ wlock' = IF mark THEN k ELSE wlock
    /\ ppc' = [ppc EXCEPT ![k] = "advance"]
    /\ UNCHANGED <<store, disabled, mpc, arg, messages, opens, news, batch>>
    /\ UNCHANGED <<ifaceVars, stmt>>
    /\ UNCHANGED <<menuVars, utilVars>>

\* for row in messages: show_message_from, and the UPDATE of a row sent by
\* the partner (which takes, or waits for, SQLite's write transaction).
PShow(k) ==
    /\ ppc[k] = "show"
    /\ LET row == Head(batch[k])
           mark == recipient_id = store[row].sender
       IN /\ mark => wlock \in {0, k}
          /\ shown' = Append(shown, [id |-> row, src |-> "live", off |-> k])
          /\ marks' = [marks EXCEPT ![k] = IF mark THEN @ \cup {row} ELSE @]
          /\ wlock' = IF mark THEN k ELSE wlock
    /\ ppc' = [ppc EXCEPT ![k] = "advance"]
    /\ UNCHANGED <<store, disabled, mpc, arg, messages, opens, news, batch>>
    /\ UNCHANGED <<ifaceVars, stmt>>
    /\ UNCHANGED <<menuVars, utilVars>>

\* self.last_msg = row['id']
PAdvance(k) ==
    /\ ppc[k] = "advance"
    /\ last_msg' = Head(batch[k])
    /\ batch' = [batch EXCEPT ![k] = Tail(@)]
    /\ ppc' = [ppc EXCEPT ![k] = IF Tail(batch[k]) = <<>>
                                 THEN "commit" ELSE "show"]
    /\ UNCHANGED <<store, disabled, wlock, is_executing, chatting,
                   recipient_id, history_offset, mpc, arg, messages, opens,
                   shown, news, marks, stmt>>
    /\ UNCHANGED <<menuVars, utilVars>>

\* Leaving `with get_db_cursor(...)`: conn.commit(), then time.sleep(0.25).
PCommit(k) ==
    /\ ppc[k] = "commit"
    /\ store' = MarkReadIds(store, marks[k])
    /\ marks' = [marks EXCEPT ![k] = {}]
    /\ wlock' = IF wlock = k THEN 0 ELSE wlock
    /\ ppc' = [ppc EXCEPT ![k] = "test"]
    /\ UNCHANGED <<disabled, mpc, arg, messages, opens, shown, news, batch>>
    /\ UNCHANGED <<ifaceVars, stmt>>
    /\ UNCHANGED <<menuVars, utilVars>>

\* ------------------------------------------- the interfaces of all users

threadVars == <<mpc, arg, messages, opens, shown, ppc, batch, marks>>

\* send_message of user s's interface, in a chat with r.
StoreInsert(s, r, same) ==
    /\ s \in Users /\ r \in Users \ {s}
    /\ wlock = 0
    /\ news < MaxNew
    /\ store' = send_message(store, s, Text(store), r, Stamp(store, same))
    /\ news' = news + 1
    /\ stmt' = [kind |-> "insert", reread |-> FALSE]
    /\ UNCHANGED <<disabled, wlock>>
    /\ UNCHANGED <<ifaceVars, threadVars>>
    /\ UNCHANGED <<menuVars, utilVars>>

\* The bulk UPDATE of goto_chat_view of user u's interface, opening the
\* chat with p.
StoreOpen(u, p) ==
    /\ u \in Users /\ p \in Users \ {u}
    /\ wlock = 0
    /\ store' = MarkReadFrom(store, p, u)
    /\ stmt' = [kind |-> "open",
                reread |-> \E i \in DOMAIN store :
                              /\ store[i].sender = p /\ store[i].recipient = u
                              /\ store[i].is_read]
    /\ UNCHANGED <<disabled, wlock, news>>
    /\ UNCHANGED <<ifaceVars, threadVars>>
    /\ UNCHANGED <<menuVars, utilVars>>

\* The rows one poll iteration of user u's interface marks, in a chat with
\* p and with watermark last: the rows of its batch sent by p.
PollMarks(st, u, p, last) ==
    LET rows == PollBatch(st, u, last, p)
    IN {rows[n] : n \in {m \in DOMAIN rows : st[rows[m]].sender = p}}

\* One committed poll iteration of user u's interface that found rows.
StorePoll(u, p, last) ==
    /\ u \in Users /\ p \in Users \ {u}
    /\ wlock = 0
    /\ PollBatch(store, u, last, p) # <<>>
    /\ store' = MarkReadIds(store, PollMarks(store, u, p, last))
    /\ stmt' = [kind |-> "poll",
                reread |-> \E i \in PollMarks(store, u, p, last) :
                              store[i].is_read]
    /\ UNCHANGED <<disabled, wlock, news>>
    /\ UNCHANGED <<ifaceVars, threadVars>>
    /\ UNCHANGED <<menuVars, utilVars>>

\* AdminMenu._toggle_is_disabled on an account.
ToggleDisabled(u) ==
    /\ u \in Others
    /\ disabled' = IF u \in disabled THEN disabled \ {u}
                                     ELSE disabled \cup {u}
    /\ UNCHANGED <<store, wlock, news, stmt>>
    /\ UNCHANGED <<ifaceVars, threadVars>>
    /\ UNCHANGED <<menuVars, utilVars>>

\* ---------------------------------------------------------------- Next

\* Another user's interface sends a message to Me.
EnvSend(s, same) ==
    /\ s \in Others
    /\ wlock = 0
    /\ news < MaxNew
    /\ store' = send_message(store, s, Text(store), Me, Stamp(store, same))
    /\ news' = news + 1
    /\ UNCHANGED <<disabled, wlock, stmt>>
    /\ UNCHANGED <<ifaceVars, threadVars>>
    /\ UNCHANGED <<menuVars, utilVars>>

Next ==
    \/ \E p \in Others : OpenChat(p)
    \/ GUpdate
    \/ GQuery
    \/ GShow
    \/ GStart
    \/ ChatClose
    \/ ChatCleanup
    \/ \E same \in BOOLEAN : ChatSend(same)
    \/ ChatMore
    \/ MenuQuit
    \/ \E k \in Pollers : PTest(k)
    \/ \E k \in Pollers : PQuery(k)
    \/ \E k \in Pollers : PShow(k)
    \/ \E k \in Pollers : PAdvance(k)
    \/ \E k \in Pollers : PCommit(k)
    \/ \E s \in Others, same \in BOOLEAN : EnvSend(s, same)

Spec == Init /\ [][Next]_vars

NextHist == Next \/ ChatMoreQuery

SpecHist == InitHist /\ [][NextHist]_vars

NextStore ==
    \/ \E s \in Users, r \in Users, same \in BOOLEAN : StoreInsert(s, r, same)
    \/ \E u \in Users, p \in Users : StoreOpen(u, p)
    \/ \E u \in Users, p \in Users, last \in 0..MaxNew : StorePoll(u, p, last)
    \/ \E u \in Others : ToggleDisabled(u)

SpecStore == Init /\ [][NextStore]_vars

\* ---------------------------------------------------------------- claims

\* A chat session: from the moment goto_chat_view has recorded last_msg
\* until the chat is closed.
InSession == mpc \in {"g_start", "input", "more"}

\* The ids the session has rendered by its initial window and its live
\* batches.
Rendered(log) ==
    {log[i].id : i \in {j \in DOMAIN log : log[j].src \in {"window", "live"}}}

\* Poller k ends an iteration in this step.
EndsIteration(k) == ppc[k] \in {"query", "commit"} /\ ppc'[k] = "test"

\* C1: within a chat session last_msg never decreases, at the end of every
\* poll iteration it is at least the id of every message rendered so far by
\* the initial window or a live batch, and an iteration with an empty batch
\* leaves it unchanged.
C1_WatermarkMonotone ==
    [][(InSession /\ InSession') =>
          /\ last_msg' >= last_msg
          /\ \A k \in Pollers :
                EndsIteration(k) =>
                    /\ \A i \in Rendered(shown') : last_msg' >= i
                    /\ ppc[k] = "query" => last_msg' = last_msg]_vars

\* C2: in one session no message is rendered twice by the initial window and
\* the live batches (each message of the conversation is rendered exactly
\* once).
C2_RenderedOnce ==
    InSession =>
        \A i, j \in DOMAIN shown :
            (/\ i # j
             /\ shown[i].src \in {"window", "live"}
             /\ shown[j].src \in {"window", "live"}) => shown[i].id # shown[j].id

\* The unread messages from s to r.
Unread(st, s, r) ==
    {i \in DOMAIN st : st[i].sender = s /\ st[i].recipient = r /\ ~st[i].is_read}

\* unread_count(p) of user u: the number of unread messages from p to u.
NumUnread(st, u, p) == Cardinality(Unread(st, p, u))

\* The chat is open, no poller is inside an iteration, and no message of the
\* conversation has an id above last_msg.
CaughtUp ==
    /\ mpc = "input"
    /\ \A k \in Pollers : ppc[k] \in {"unborn", "test", "done"}
    /\ \A i \in Conv(store, Me, arg) : i <= last_msg

\* C3: at the end of a poll iteration of an open chat with P that leaves the
\* poller caught up, every message from P that was rendered is marked read,
\* so unread_count(P) is 0.
C3_ReadWhenCaughtUp ==
    [][((\E k \in Pollers : EndsIteration(k)) /\ CaughtUp') =>
          /\ NumUnread(store', Me, arg') = 0
          /\ \A i \in Rendered(shown') :
                (store'[i].sender = arg' /\ store'[i].recipient = Me)
                    => store'[i].is_read]_vars

\* C4: the bulk update of goto_chat_view of user u, opening the chat with p,
\* marks read every message from p to u, so unread_count(p) is 0 right after
\* it, and leaves every other row as it was, so the unread counts of u's
\* other partners are unchanged.
C4_OpenMarksPartnerOnly ==
    [][\A u \in Users : \A p \in Users \ {u} :
          StoreOpen(u, p) =>
              /\ DOMAIN store' = DOMAIN store
              /\ \A i \in DOMAIN store :
                    IF store[i].sender = p /\ store[i].recipient = u
                    THEN store'[i].is_read
                    ELSE store'[i] = store[i]
              /\ NumUnread(store', u, p) = 0
              /\ \A q \in Users \ {u, p} :
                    NumUnread(store', u, q) = NumUnread(store, u, q)]_vars

\* C4 witness: a user has just opened a chat: a message to that user is now
\* read while the same user still has an unread message from another
\* partner.
C4_Witness ==
    /\ stmt.kind = "open"
    /\ \E i, j \in DOMAIN store :
          /\ store[i].recipient = store[j].recipient
          /\ store[i].sender # store[j].sender
          /\ store[i].is_read /\ ~store[j].is_read

\* C5: in every result of chats() for a user, num_unread of a row equals
\* the number of unread messages from that partner to the user at the
\* moment of the query (0 when there is none).
C5_NumUnreadIsCount ==
    \A u \in Users, limit \in {None, 1}, offset \in {0, 1} :
        \A res \in chats(store, disabled, u, limit, offset) :
            \A n \in DOMAIN res :
                res[n].num_unread = NumUnread(store, u, res[n].chat_partner_id)

\* C5 witness: a conversation list of Me with an unread partner and a
\* partner without unread messages.
C5_Witness ==
    \E res \in chats(store, disabled, Me, None, 0) :
        \E n, m \in DOMAIN res :
            res[n].num_unread = 1 /\ res[m].num_unread = 0

\* The latest message of the conversation of u with p: the row inserted
\* last.
LatestId(st, u, p) ==
    CHOOSE i \in Conv(st, u, p) : \A j \in Conv(st, u, p) : j <= i

\* C6: chats() without a limit returns exactly one row for each partner
\* that is not disabled and has exchanged a message with the user, each row
\* carries the latest message of the conversation, and the rows are ordered
\* by the timestamp of that message, descending.
C6_ListOfLatest ==
    \A u \in Users :
        \A res \in chats(store, disabled, u, None, 0) :
            /\ {res[n].chat_partner_id : n \in DOMAIN res}
                  = {p \in Users \ disabled : Conv(store, u, p) # {}}
            /\ \A n, m \in DOMAIN res :
                  /\ n # m => res[n].chat_partner_id # res[m].chat_partner_id
                  /\ n < m => res[n].timestamp >= res[m].timestamp
            /\ \A n \in DOMAIN res :
                  LET l == store[LatestId(store, u, res[n].chat_partner_id)]
                  IN /\ res[n].message = l.body
                     /\ res[n].sender_id = l.sender
                     /\ res[n].timestamp = l.created_at

\* The entries of the log printed by the initial window or by /more.
Loaded == {i \in DOMAIN shown : shown[i].src \in {"window", "more"}}

\* C7: in one session every message of a /more window has an id below every
\* id of the initial window and of the earlier /more windows, and no id is
\* returned by two of these windows.
C7_OlderWindowsBelow ==
    InSession =>
        \A i, j \in Loaded :
            (shown[j].src = "more" /\ shown[i].off < shown[j].off)
                => shown[j].id < shown[i].id

\* C8: no step deletes a row, changes the sender, recipient, body or
\* timestamp of a row, or turns is_read from true to false; this covers the
\* statements that mark an already-read row again.
C8_RowsImmutable ==
    [][/\ Len(store') >= Len(store)
       /\ \A i \in DOMAIN store :
             /\ store'[i].sender = store[i].sender
             /\ store'[i].recipient = store[i].recipient
             /\ store'[i].body = store[i].body
             /\ store'[i].created_at = store[i].created_at
             /\ store[i].is_read => store'[i].is_read]_vars

\* C8 witness: a statement has marked again a row that was already read,
\* while another row is unread.
C8_Witness ==
    /\ stmt.kind \in {"open", "poll"} /\ stmt.reread
    /\ \E i \in DOMAIN store : ~store[i].is_read

\* The chat poller k was started for has been closed.
ChatClosed(k) ==
    \/ k < opens
    \/ k = opens /\ mpc \in {"close", "menu", "exited"}

\* C9: a poller whose chat has been closed leaves its loop at its next loop
\* test.
C9_PollerLeavesAtNextTest ==
    [][\A k \in Pollers :
          (ChatClosed(k) /\ ppc[k] = "test" /\ ppc'[k] # "test")
              => ppc'[k] = "done"]_vars

\* Poller k is inside the body of its loop.
InLoop(k) == ppc[k] \in {"query", "show", "advance", "commit"}

\* C10: at every moment at most one poller thread is inside its polling
\* loop.
C10_OnePollerInLoop == Cardinality({k \in Pollers : InLoop(k)}) <= 1

\* C11: the messages of the initial window and of the live batches of a
\* session are rendered in strictly ascending id order: each rendered
\* message has a larger id than every message rendered before it.
C11_AscendingIds ==
    InSession =>
        \A i, j \in DOMAIN shown :
            (/\ i < j
             /\ shown[i].src \in {"window", "live"}
             /\ shown[j].src \in {"window", "live"}) => shown[i].id < shown[j].id

\* ------------------------------------------- the input loop of a chat

\* A line is a sequence of characters.
WhiteSpace == {" ", "\t"}

UpperCase == <<"A", "B", "C", "D", "E", "F", "G", "H", "I", "J", "K", "L", "M",
               "N", "O", "P", "Q", "R", "S", "T", "U", "V", "W", "X", "Y", "Z">>
LowerCase == <<"a", "b", "c", "d", "e", "f", "g", "h", "i", "j", "k", "l", "m",
               "n", "o", "p", "q", "r", "s", "t", "u", "v", "w", "x", "y", "z">>

\* str.lower()
LowerChar(c) ==
    IF \E i \in DOMAIN UpperCase : UpperCase[i] = c
    THEN LowerCase[CHOOSE i \in DOMAIN UpperCase : UpperCase[i] = c]
    ELSE c

Lower(s) == [i \in 1..Len(s) |-> LowerChar(s[i])]

\* A strip that leaves the trailing white space.
Strip_LeadingOnly(s) ==
    IF s # <<>> /\ s[1] \in WhiteSpace /\ Len(s) > 1 /\ s[2] \notin WhiteSpace
    THEN Tail(s) ELSE s

\* str.strip(): drop the leading, then the trailing white space.
RECURSIVE LStrip(_)
LStrip(s) ==
    IF s # <<>> /\ Head(s) \in WhiteSpace THEN LStrip(Tail(s)) ELSE s

RECURSIVE RStrip(_)
RStrip(s) ==
    IF s # <<>> /\ s[Len(s)] \in WhiteSpace
    THEN RStrip(SubSeq(s, 1, Len(s) - 1)) ELSE s

Strip(s) == RStrip(LStrip(s))

\* The patterns of match message.lower().
CloseCommands == {<<"/", "b">>, <<"/", "b", "a", "c", "k">>, <<"/", "q">>, <<"/", "q", "u", "i", "t">>, <<"/", "e", "x", "i", "t">>}
ClearCommands == {<<"/", "c">>, <<"/", "c", "l", "e", "a", "r">>, <<"/", "c", "l", "e", "a", "n">>}
MoreCommands == {<<"/", "m">>, <<"/", "m", "o", "r", "e">>}
HelpCommands == {<<"/", "h", "e", "l", "p">>, <<"/", "h">>}

\* The lines typed at the prompt of a chat.
Lines ==
    {<<>>,
     <<" ">>,
     <<" ", "\t">>,
     <<"h", "i">>,
     <<" ", "h", "i", " ">>,
     <<"\t", "h", "i">>,
     <<"h", " ", "i">>,
     <<" ", "H", "i", "\t">>,
     <<"/", "x">>,
     <<"/", "b">>,
     <<" ", "/", "B", " ">>,
     <<"/", "b", "a", "c", "k">>,
     <<"/", "q">>,
     <<"/", "Q", "u", "i", "t">>,
     <<"/", "e", "x", "i", "t">>,
     <<"/", "c">>,
     <<"/", "c", "l", "e", "a", "r">>,
     <<"/", "c", "l", "e", "a", "n">>,
     <<"/", "m">>,
     <<"/", "M", "O", "R", "E">>,
     <<"/", "m", "o", "r", "e", " ">>,
     <<"/", "h">>,
     <<"/", "h", "e", "l", "p">>}

\* The log without the lines of an earlier /clear.
NotCleared(e) == e.src # "clear"

\* Input /c, /clear, /clean: print the loaded part of the conversation
\* again. The log keeps the lines of the last /clear only.
ChatClear ==
    /\ mpc = "input"
    /\ UNCHANGED <<store, disabled, wlock, mpc, arg, messages, opens, news>>
    /\ UNCHANGED <<ifaceVars, pollVars, stmt>>
    /\ \E w \in messages_with(store, Me, arg,
                              messages_per_page + history_offset, 0) :
          shown' = SelectSeq(shown, NotCleared) \o Entries(w, "clear", 0)
    /\ UNCHANGED <<menuVars, utilVars>>

\* Input /h, /help, and an empty line: nothing but printing.
ChatNoOp ==
    /\ mpc = "input"
    /\ UNCHANGED vars

\* The lines with what the message loop computes from each:
\* message = raw_message.strip() and message.lower().
Typed ==
    {[raw_message |-> l, message |-> Strip(l), lower |-> Lower(Strip(l))] :
        l \in Lines}

\* One iteration of the message loop on a typed line.
InputLine(in, same) ==
    CASE in.lower \in CloseCommands -> ChatClose
      [] in.lower \in ClearCommands -> ChatClear
      [] in.lower \in MoreCommands -> ChatMore
      [] in.lower \in HelpCommands -> ChatNoOp
      [] in.message # <<>> -> ChatSendText(in.message, same)
      [] OTHER -> ChatNoOp

\* The input thread on the lines typed in the last chat of a run, with
\* user 2 (a conversation of a row more than a page) or with user 3 (an
\* empty conversation); the poller thread of the chat is not scheduled
\* and every message is sent in a second of its own.
NextInput ==
    \/ \E p \in Others : OpenChat(p)
    \/ GUpdate
    \/ GQuery
    \/ GShow
    \/ GStart
    \/ \E in \in Typed : InputLine(in, FALSE)
    \/ ChatMoreQuery
    \/ ChatCleanup
    \/ MenuQuit
    \/ \E s \in Others : EnvSend(s, FALSE)

SpecInput == InitHist /\ [][NextInput]_vars

\* The text of a line after trimming: the part of the line between its
\* leading and its trailing white space.
TrimOf(line) ==
    CHOOSE t \in {SubSeq(line, i, j) : i \in 1..Len(line) + 1, j \in 0..Len(line)} :
        \E i \in 1..Len(line) + 1, j \in 0..Len(line) :
            /\ t = SubSeq(line, i, j)
            /\ \A k \in 1..Len(line) : (k < i \/ k > j) => line[k] \in WhiteSpace
            /\ t # <<>> => (t[1] \notin WhiteSpace /\ t[Len(t)] \notin WhiteSpace)

Trimmed == [line \in Lines |-> TrimOf(line)]

\* A chat command, in any case.
IsCommand(t) ==
    Lower(t) \in CloseCommands \cup ClearCommands \cup MoreCommands
                     \cup HelpCommands

\* C12: in an open chat a line that is empty after trimming changes nothing
\* in the table; a line that is not empty after trimming and is no chat
\* command inserts exactly one row, with sender the current user, recipient
\* the open partner, body the trimmed text and is_read false, and changes no
\* other row.
C12_SendInsertsOneRow ==
    [][\A in \in Typed :
          InputLine(in, FALSE) =>
              LET t == Trimmed[in.raw_message]
              IN IF t = <<>> THEN store' = store
                 ELSE IsCommand(t) \/
                      /\ Len(store') = Len(store) + 1
                      /\ \A i \in DOMAIN store : store'[i] = store[i]
                      /\ store'[Len(store')].sender = Me
                      /\ store'[Len(store')].recipient = recipient_id
                      /\ store'[Len(store')].body = t
                      /\ ~store'[Len(store')].is_read]_vars

\* C12 witness: in an open chat the line " Hi<tab>" has been sent: the last
\* row is an unread row of the current user to the open partner with the
\* body "Hi", after rows of earlier sessions.
C12_Witness ==
    /\ mpc = "input"
    /\ Len(store) > messages_per_page + 1
    /\ store[Len(store)].sender = Me
    /\ store[Len(store)].recipient = recipient_id
    /\ store[Len(store)].body = <<"H", "i">>
    /\ ~store[Len(store)].is_read

\* The number of messages between a and b.
NumMessages(st, a, b) ==
    Cardinality({i \in DOMAIN st : {st[i].sender, st[i].recipient} = {a, b}})

\* The conversation of the open chat has a message older than those loaded.
OlderExist ==
    NumMessages(store, Me, recipient_id) > history_offset + messages_per_page

\* C13: /more on a conversation without a message older than those loaded
\* returns no window and leaves history_offset, last_msg and the table
\* unchanged; when older messages exist it advances history_offset by
\* exactly messages_per_page (and changes neither last_msg nor the table).
C13_MoreFrame ==
    [][/\ ChatMore =>
             /\ history_offset' = history_offset
             /\ last_msg' = last_msg /\ store' = store /\ shown' = shown
             /\ mpc' = IF OlderExist THEN "more" ELSE "input"
       /\ ChatMoreQuery =>
             /\ history_offset' = history_offset + messages_per_page
             /\ last_msg' = last_msg /\ store' = store
             /\ Len(shown') > Len(shown)]_vars

\* C13 witness: a /more of the open chat has loaded an older window and
\* nothing older is left.
C13_Witness ==
    /\ mpc = "input"
    /\ history_offset = messages_per_page
    /\ \E i \in DOMAIN shown : shown[i].src = "more"
    /\ ~OlderExist

\* ------------------------------------------------------ storage errors

\* The poller thread leaves its loop with the exception.
PollerCaught_Raises(k) == ppc' = [ppc EXCEPT ![k] = "dead"]

\* except sqlite3.Error: pass, then time.sleep(0.25) and the loop test.
PollerCaught(k) == ppc' = [ppc EXCEPT ![k] = "test"]

\* The poller's connection or SELECT raises sqlite3.Error.
PQueryError(k) ==
    /\ ppc[k] = "query"
    /\ faults < MaxFaults
    /\ faults' = faults + 1
    /\ UNCHANGED utilVars
    /\ PollerCaught(k)
    /\ UNCHANGED <<store, disabled, wlock, mpc, arg, messages, opens, shown,
                   news, batch, marks>>
    /\ UNCHANGED <<ifaceVars, stmt, chat_page, current_page>>

\* The poller's UPDATE of a row sent by the partner raises sqlite3.Error,
\* after the row was shown: get_db_cursor rolls back the updates of the
\* iteration and the rest of the batch is dropped.
PShowError(k) ==
    /\ ppc[k] = "show"
    /\ faults < MaxFaults
    /\ recipient_id = store[Head(batch[k])].sender
    /\ faults' = faults + 1
    /\ UNCHANGED utilVars
    /\ shown' = Append(shown, [id |-> Head(batch[k]), src |-> "live", off |-> k])
    /\ marks' = [marks EXCEPT ![k] = {}]
    /\ batch' = [batch EXCEPT ![k] = <<>>]
    /\ wlock' = IF wlock = k THEN 0 ELSE wlock
    /\ PollerCaught(k)
    /\ UNCHANGED <<store, disabled, mpc, arg, messages, opens, news>>
    /\ UNCHANGED <<ifaceVars, stmt, chat_page, current_page>>

\* The loop of run goes on after the exception.
RunCaught_Continues == mpc' = mpc

\* run: except Exception: print('Sorry, ...'); break. run returns.
RunCaught == mpc' = "failed"

\* A statement of the input thread raises sqlite3.Error: rendering the
\* conversation list or a command of the menu, the bulk UPDATE or the
\* queries of goto_chat_view, send_message, /clear, /more. Its transaction
\* is rolled back; goto_chat_view has no handler for it, run catches it.
InputError ==
    /\ mpc \in {"menu", "g_update", "g_query", "input", "more"}
    /\ faults < MaxFaults
    /\ faults' = faults + 1
    /\ UNCHANGED utilVars
    /\ RunCaught
    /\ UNCHANGED <<store, disabled, wlock, arg, messages, opens, shown, news>>
    /\ UNCHANGED <<ifaceVars, pollVars, stmt, chat_page, current_page>>

\* The threads of the last chat of a run with storage errors; every message
\* is sent in a second of its own.
NextErr ==
    \/ \E p \in Others : OpenChat(p)
    \/ GUpdate
    \/ GQuery
    \/ GShow
    \/ GStart
    \/ ChatClose
    \/ ChatCleanup
    \/ ChatSend(FALSE)
    \/ ChatMore
    \/ ChatMoreQuery
    \/ MenuQuit
    \/ \E k \in Pollers : PTest(k)
    \/ \E k \in Pollers : PQuery(k)
    \/ \E k \in Pollers : PShow(k)
    \/ \E k \in Pollers : PAdvance(k)
    \/ \E k \in Pollers : PCommit(k)
    \/ \E s \in Others : EnvSend(s, FALSE)
    \/ \E k \in Pollers : PQueryError(k)
    \/ \E k \in Pollers : PShowError(k)
    \/ InputError

SpecErr == InitHist /\ [][NextErr]_vars

\* C14: a storage error raised by the query or by a mark-read update of a
\* poll iteration does not stop the poller thread, which goes on to its next
\* loop test, and changes neither is_executing, chatting, the open partner
\* nor the position of the input thread.
C14_PollerSwallowsErrors ==
    [][\A k \in Pollers :
          (PQueryError(k) \/ PShowError(k)) =>
              /\ ppc'[k] = "test"
              /\ is_executing' = is_executing
              /\ chatting' = chatting
              /\ recipient_id' = recipient_id
              /\ mpc' = mpc]_vars

\* C14 witness: the chat is open and a poller is in an iteration again
\* after a storage error of a poll iteration.
C14_Witness ==
    /\ faults > 0
    /\ mpc = "input" /\ chatting /\ is_executing
    /\ \E k \in Pollers : ppc[k] = "show"

\* C15: a storage error of an interactive operation ends the loop of run,
\* the failed operation is not retried (it has written nothing), and after
\* run has returned no menu or chat command is processed: the interface's
\* fields and pages stay as they are and the user sends nothing.
C15_InteractiveErrorEndsRun ==
    [][/\ InputError => (mpc' = "failed" /\ store' = store)
       /\ mpc = "failed" =>
             /\ mpc' = "failed"
             /\ is_executing' = is_executing /\ chatting' = chatting
             /\ recipient_id' = recipient_id
             /\ history_offset' = history_offset /\ chat_page' = chat_page
             /\ \A i \in DOMAIN store' :
                   i \notin DOMAIN store => store'[i].sender # Me]_vars

\* C15 witness: run has returned after a storage error raised in an open
\* chat in which a message had been sent.
C15_Witness ==
    /\ mpc = "failed" /\ chatting
    /\ Len(store) > messages_per_page + 1

\* ------------------------------------------------- the menus of run

chats_per_page == 3
users_per_page == 10

Digits == <<"0", "1", "2", "3", "4", "5", "6", "7", "8", "9">>

\* str.isdigit()
IsDigit(s) ==
    /\ s # <<>>
    /\ \A i \in DOMAIN s : \E d \in DOMAIN Digits : Digits[d] = s[i]

\* int(s) of a string of digits.
RECURSIVE IntOf(_)
IntOf(s) ==
    IF s = <<>> THEN 0
    ELSE 10 * IntOf(SubSeq(s, 1, Len(s) - 1))
            + (CHOOSE d \in DOMAIN Digits : Digits[d] = s[Len(s)]) - 1

\* math.ceil(a / b)
Ceil(a, b) == (a + b - 1) \div b

\* The lines typed at the prompts of the menus, with
\* command = input(...).strip().lower().
MenuLines ==
    {<<"p">>,
     <<"n">>,
     <<"f">>,
     <<"l">>,
     <<"o">>,
     <<"u">>,
     <<"r">>,
     <<"b">>,
     <<"q">>,
     <<"x">>,
     <<>>,
     <<" ", "N", " ">>,
     <<"0">>,
     <<"1">>,
     <<"2">>,
     <<"3">>,
     <<"4">>,
     <<"0", "2">>,
     <<"1", "a">>}

MenuTyped == {[raw |-> l, command |-> Lower(Strip(l))] : l \in MenuLines}

\* nondisabled_users(): the users but self.user that are not disabled, in
\* the order of the query (user names are in the order of the ids).
nondisabled_users(dis) == AscSeq((Accounts \ {Me}) \ dis)

\* One iteration of the loop of run: the conversation list is rendered and
\* a command is read and executed. Indexing a list at its length raises
\* IndexError, which run catches as Exception.
MenuLine(in) ==
    /\ mpc = "menu"
    /\ \E cs \in chats(store, disabled, Me, chats_per_page,
                       chat_page * chats_per_page) :
       LET command == in.command
           total_pages == Ceil(total_chats(store, disabled, Me), chats_per_page)
           i == IntOf(command) - 1
       IN CASE command = <<"p">> ->
                 /\ chat_page' = IF chat_page > 0 THEN chat_page - 1
                                                  ELSE chat_page
                 /\ UNCHANGED <<store, disabled, wlock, mpc, arg, messages,
                                opens, shown, news, current_page, faults,
                                utilVars>>
                 /\ UNCHANGED <<ifaceVars, pollVars, stmt>>
            [] command = <<"n">> ->
                 /\ chat_page' = IF chat_page < total_pages - 1
                                 THEN chat_page + 1 ELSE chat_page
                 /\ UNCHANGED <<store, disabled, wlock, mpc, arg, messages,
                                opens, shown, news, current_page, faults,
                                utilVars>>
                 /\ UNCHANGED <<ifaceVars, pollVars, stmt>>
            [] command = <<"f">> ->
                 /\ chat_page' = 0
                 /\ UNCHANGED <<store, disabled, wlock, mpc, arg, messages,
                                opens, shown, news, current_page, faults,
                                utilVars>>
                 /\ UNCHANGED <<ifaceVars, pollVars, stmt>>
            [] command = <<"l">> ->
                 /\ chat_page' = IF total_chats(store, disabled, Me) > 0
                                 THEN total_pages - 1 ELSE chat_page
                 /\ UNCHANGED <<store, disabled, wlock, mpc, arg, messages,
                                opens, shown, news, current_page, faults,
                                utilVars>>
                 /\ UNCHANGED <<ifaceVars, pollVars, stmt>>
            [] command = <<"o">> ->
                 \E name \in Users \cup {None} :
                    IF \E n \in DOMAIN nondisabled_users(disabled) :
                          nondisabled_users(disabled)[n] = name
                    THEN /\ chat_page' = 0
                         /\ GotoChatView(name)
                         /\ UNCHANGED current_page
                    ELSE UNCHANGED vars
            [] command = <<"u">> ->
                 /\ mpc' = "users"
                 /\ current_page' = 0
                 /\ UNCHANGED <<store, disabled, wlock, arg, messages, opens,
                                shown, news, chat_page, faults,
                                utilVars>>
                 /\ UNCHANGED <<ifaceVars, pollVars, stmt>>
            [] command = <<"r">> -> UNCHANGED vars
            [] command \in {<<"b">>, <<"q">>} -> MenuQuit
            [] IsDigit(command) /\ command \notin {<<"b">>, <<"q">>} ->
                 IF i < 0 \/ i > Len(cs) THEN UNCHANGED vars
                 ELSE IF i + 1 \in DOMAIN cs
                 THEN /\ GotoChatView(cs[i + 1].chat_partner_id)
                      /\ UNCHANGED <<chat_page, current_page>>
                 ELSE /\ RunCaught
                      /\ UNCHANGED <<store, disabled, wlock, arg, messages,
                                     opens, shown, news>>
                      /\ UNCHANGED <<ifaceVars, pollVars, stmt, menuVars,
                                  utilVars>>
            [] OTHER -> UNCHANGED vars

\* One iteration of the loop of show_users_with_pagination.
UsersLine(in) ==
    /\ mpc = "users"
    /\ LET command == in.command
           users == nondisabled_users(disabled)
           total_users == Len(users)
           total_pages == Ceil(total_users, users_per_page)
           offset == current_page * users_per_page
           page_users == SubSeq(users, offset + 1,
                                Min(total_users, offset + users_per_page))
           i == IntOf(command) - 1
       IN CASE command = <<"p">> ->
                 /\ current_page' = IF current_page > 0 THEN current_page - 1
                                                        ELSE current_page
                 /\ UNCHANGED <<store, disabled, wlock, mpc, arg, messages,
                                opens, shown, news, chat_page, faults,
                                utilVars>>
                 /\ UNCHANGED <<ifaceVars, pollVars, stmt>>
            [] command = <<"n">> ->
                 /\ current_page' = IF current_page < total_pages - 1
                                    THEN current_page + 1 ELSE current_page
                 /\ UNCHANGED <<store, disabled, wlock, mpc, arg, messages,
                                opens, shown, news, chat_page, faults,
                                utilVars>>
                 /\ UNCHANGED <<ifaceVars, pollVars, stmt>>
            [] IsDigit(command) ->
                 IF i < 0 \/ i > Len(page_users) THEN UNCHANGED vars
                 ELSE IF i + 1 \in DOMAIN page_users
                 THEN /\ GotoChatView(page_users[i + 1])
                      /\ UNCHANGED <<chat_page, current_page>>
                 ELSE /\ RunCaught
                      /\ UNCHANGED <<store, disabled, wlock, arg, messages,
                                     opens, shown, news>>
                      /\ UNCHANGED <<ifaceVars, pollVars, stmt, menuVars,
                                  utilVars>>
            [] command = <<"b">> ->
                 /\ mpc' = "menu"
                 /\ UNCHANGED <<store, disabled, wlock, arg, messages, opens,
                                shown, news>>
                 /\ UNCHANGED <<ifaceVars, pollVars, stmt, menuVars,
                                  utilVars>>
            [] OTHER -> UNCHANGED vars

\* The input thread in the menus, with chats opened and closed, other users
\* sending and accounts being disabled and enabled; the poller threads are
\* not scheduled.
NextMenu ==
    \/ \E in \in MenuTyped : MenuLine(in)
    \/ \E in \in MenuTyped : UsersLine(in)
    \/ GUpdate
    \/ GQuery
    \/ GShow
    \/ GStart
    \/ ChatClose
    \/ ChatCleanup
    \/ \E s \in Others, same \in BOOLEAN : EnvSend(s, same)
    \/ \E u \in Others : ToggleDisabled(u)

SpecMenu == Init /\ [][NextMenu]_vars

\* The number of rows the conversation list shows.
NumChatsShown ==
    Len(CHOOSE cs \in chats(store, disabled, Me, chats_per_page,
                            chat_page * chats_per_page) : TRUE)

\* The number of rows the user browser shows.
NumUsersShown ==
    Len(SubSeq(nondisabled_users(disabled), current_page * users_per_page + 1,
               Min(Len(nondisabled_users(disabled)),
                   (current_page + 1) * users_per_page)))

\* A command outside the recognised ones and the numbers 1..n.
BadCommand(command, recognised, n) ==
    /\ command \notin recognised
    /\ ~(IsDigit(command) /\ IntOf(command) \in 1..n)

\* C16: in the conversation-list menu and in the user browser an
\* unrecognised command, a paging command at the first or last page and a
\* number outside 1..n (n the number of rows shown) never end the interface
\* and never open a chat: the loop of the menu continues with is_executing
\* true.
C16_InvalidInputContinues ==
    [][\A in \in MenuTyped :
          /\ (/\ MenuLine(in)
              /\ \/ BadCommand(in.command,
                               {<<"p">>, <<"n">>, <<"f">>, <<"l">>, <<"o">>,
                                <<"u">>, <<"r">>, <<"b">>, <<"q">>},
                               NumChatsShown)
                 \/ in.command = <<"p">> /\ chat_page = 0
                 \/ in.command = <<"n">> /\
                      chat_page >= Ceil(total_chats(store, disabled, Me),
                                        chats_per_page) - 1)
                => (mpc' = "menu" /\ is_executing' /\ opens' = opens)
          /\ (/\ UsersLine(in)
              /\ \/ BadCommand(in.command, {<<"p">>, <<"n">>, <<"b">>},
                               NumUsersShown)
                 \/ in.command = <<"p">> /\ current_page = 0
                 \/ in.command = <<"n">> /\
                      current_page >= Ceil(Len(nondisabled_users(disabled)),
                                           users_per_page) - 1)
                => (mpc' = "users" /\ is_executing' /\ opens' = opens)]_vars

\* ------------------------------------------------------------ interrupts

\* goto_chat_view, except KeyboardInterrupt of the message loop: the
\* interrupt arrives while the loop waits for input or works on a command.
ChatInterrupt ==
    /\ mpc \in {"input", "more"}
    /\ chatting' = FALSE
    /\ mpc' = "close"
    /\ UNCHANGED <<store, disabled, wlock, is_executing, recipient_id,
                   last_msg, history_offset, arg, messages, opens, shown,
                   news>>
    /\ UNCHANGED <<pollVars, stmt>>
    /\ UNCHANGED <<menuVars, utilVars>>

\* run, except KeyboardInterrupt: the interrupt arrives in the menu, in the
\* user browser, or in goto_chat_view outside its message loop, where
\* nothing catches it before run does.
RunInterrupt ==
    /\ mpc \in {"menu", "users", "g_update", "g_query", "g_show", "g_start"}
    /\ is_executing' = FALSE
    /\ mpc' = "exited"
    /\ UNCHANGED <<store, disabled, wlock, chatting, recipient_id, last_msg,
                   history_offset, arg, messages, opens, shown, news>>
    /\ UNCHANGED <<pollVars, stmt>>
    /\ UNCHANGED <<menuVars, utilVars>>

\* The chat feature when chats and the interface are left by interrupts
\* only.
NextInt ==
    \/ \E p \in Others : OpenChat(p)
    \/ GUpdate
    \/ GQuery
    \/ GShow
    \/ GStart
    \/ ChatInterrupt
    \/ RunInterrupt
    \/ ChatCleanup
    \/ \E k \in Pollers : PTest(k)
    \/ \E k \in Pollers : PQuery(k)
    \/ \E k \in Pollers : PShow(k)
    \/ \E k \in Pollers : PAdvance(k)
    \/ \E k \in Pollers : PCommit(k)
    \/ \E s \in Others : EnvSend(s, FALSE)

SpecInt == Init /\ [][NextInt]_vars

\* C17: a keyboard interrupt is a clean exit at every loop level: in an open
\* chat it closes the chat (chatting false, run goes on) and the chat
\* returns to the menu; in the menu it ends run with is_executing false; and
\* after either, every poller whose chat was closed or whose interface was
\* ended leaves its loop at its next loop test.
C17_InterruptIsCleanExit ==
    [][/\ (mpc \in {"input", "more"} /\ mpc' = "close")
              => (~chatting' /\ is_executing')
       /\ (mpc = "close" /\ mpc' # mpc)
              => (mpc' = "menu" /\ recipient_id' = None)
       /\ (mpc = "menu" /\ mpc' = "exited") => ~is_executing'
       /\ \A k \in Pollers :
             (/\ ChatClosed(k) \/ ~is_executing
              /\ ppc[k] = "test"
              /\ ppc'[k] # "test")
                 => ppc'[k] = "done"]_vars

\* ------------------------------------------------------------ pagination

\* Python's data[start:end] on a list.
SliceIndex(i, n) == IF i < 0 THEN (IF i + n < 0 THEN 0 ELSE i + n)
                    ELSE IF i > n THEN n ELSE i

Slice(d, start, end) ==
    SubSeq(d, SliceIndex(start, Len(d)) + 1, SliceIndex(end, Len(d)))

\* get_page_data without the clamping of page_number.
get_page_data_NoClamp(d, number, size) ==
    IF d = <<>> THEN << <<>>, 0 >>
    ELSE LET num_pages == Ceil(Len(d), size)
             start_idx == (number - 1) * size
             end_idx == start_idx + size
         IN  << Slice(d, start_idx, end_idx), num_pages >>

\* get_page_data slicing from the end of the page.
get_page_data_NextPage(d, number, size) ==
    IF d = <<>> THEN << <<>>, 0 >>
    ELSE LET num_pages == Ceil(Len(d), size)
             page == IF number < num_pages THEN number ELSE num_pages
             start_idx == (IF page > 1 THEN page ELSE 1) * size
             end_idx == start_idx + size
         IN  << Slice(d, start_idx, end_idx), num_pages >>

\* get_page_data(data, page_number, page_size): the pair (page, num_pages).
get_page_data(d, number, size) ==
    IF d = <<>> THEN << <<>>, 0 >>
    ELSE LET num_pages == Ceil(Len(d), size)
             least == IF number < num_pages THEN number ELSE num_pages
             page == IF 1 > least THEN 1 ELSE least
             start_idx == (page - 1) * size
             end_idx == start_idx + size
         IN  << Slice(d, start_idx, end_idx), num_pages >>

\* A call of get_page_data is about to be made on a list of up to MaxItems
\* distinct items.
InitPage ==
    /\ store = <<>>
    /\ Idle
    /\ CampIdle
    /\ StaffIdle
    /\ data \in {[i \in 1..n |-> i] : n \in 0..MaxItems}
    /\ page_number \in (0 - MaxPageNumber)..MaxPageNumber
    /\ page_size \in 1..MaxPageSize
    /\ paged = <<>>

GetPageData ==
    /\ paged = <<>>
    /\ paged' = get_page_data(data, page_number, page_size)
    /\ UNCHANGED <<data, page_number, page_size>>
    /\ UNCHANGED <<chatVars, campVars, notifVars, leaderVars>>

NextPage == GetPageData

SpecPage == InitPage /\ [][NextPage]_vars

\* The least number of pages of size `size` that hold n items.
PagesFor(n, size) == CHOOSE k \in 0..n : k * size >= n /\ (k - 1) * size < n

\* Page k of d: the items at the positions (k - 1) * size + 1 .. k * size
\* that d has.
PageOf(d, k, size) ==
    LET first == (k - 1) * size + 1
        last == IF k * size < Len(d) THEN k * size ELSE Len(d)
    IN  [i \in 1..(last - first + 1) |-> d[first + i - 1]]

\* C18: on a non-empty list get_page_data returns ceil(len(data) /
\* page_size) as num_pages and the page of page_number clamped into
\* 1..num_pages (the last page for a number above, the first for a number
\* below 1); on an empty list it returns the empty page and 0.
C18_PageIsClampedSlice ==
    paged # <<>> =>
        IF data = <<>>
        THEN paged = << <<>>, 0 >>
        ELSE LET n == PagesFor(Len(data), page_size)
                 k == IF page_number > n THEN n
                      ELSE IF page_number < 1 THEN 1 ELSE page_number
             IN  paged = << PageOf(data, k, page_size), n >>

\* C18 witness: 12 items, page size 5, page 4 asked for: page 3 with its 2
\* items is returned.
C18_Witness ==
    /\ Len(data) = 12
    /\ page_size = 5
    /\ page_number = 4
    /\ paged = << <<11, 12>>, 3 >>

\* The pages k .. n of d joined in order, as get_page_data returns them.
RECURSIVE Joined(_, _, _, _)
Joined(d, k, n, size) ==
    IF k > n THEN <<>>
    ELSE get_page_data(d, k, size)[1] \o Joined(d, k + 1, n, size)

\* C19: the pages 1 .. ceil(len(data) / page_size) that get_page_data
\* returns, joined in order, are data itself.
C19_PagesJoinToData ==
    paged # <<>> =>
        Joined(data, 1, PagesFor(Len(data), page_size), page_size) = data

\* C19 witness: a call on a list of several pages whose last page is not
\* full.
C19_Witness ==
    /\ paged # <<>>
    /\ Len(data) > 2 * page_size
    /\ Len(data) % page_size # 0
    /\ Len(paged[1]) = page_size

\* ----------------------------------------------------------- camp status

\* Minimum number of campers needed for a camp to run.
MIN_CAMPERS == 1

\* CampStatus
PLANNED == "planned"
NO_CAMPERS == "no_campers"
INSUFFICIENT_FOOD == "insufficient_food"
READY == "ready"
IN_PROGRESS == "in_progress"
COMPLETED == "completed"
CANCELLED == "cancelled"

\* determine_status testing the food of a future camp before its campers.
determine_status_FoodFirst(t, s, e, leader, n, food) ==
    IF e < t
    THEN IF leader /\ n >= MIN_CAMPERS /\ food THEN COMPLETED ELSE CANCELLED
    ELSE IF s <= t /\ t <= e
    THEN IF leader /\ n >= MIN_CAMPERS /\ food THEN IN_PROGRESS
         ELSE CANCELLED
    ELSE IF ~leader THEN PLANNED
    ELSE IF ~food THEN INSUFFICIENT_FOOD
    ELSE IF n < MIN_CAMPERS THEN NO_CAMPERS
    ELSE READY

\* determine_status(today, s_date, e_date, has_leader, n_campers,
\* food_sufficient)
determine_status(t, s, e, leader, n, food) ==
    IF e < t
    THEN IF leader /\ n >= MIN_CAMPERS /\ food THEN COMPLETED ELSE CANCELLED
    ELSE IF s <= t /\ t <= e
    THEN IF leader /\ n >= MIN_CAMPERS /\ food THEN IN_PROGRESS
         ELSE CANCELLED
    ELSE IF ~leader THEN PLANNED
    ELSE IF n < MIN_CAMPERS THEN NO_CAMPERS
    ELSE IF ~food THEN INSUFFICIENT_FOOD
    ELSE READY

\* The status of a camp that starts no later than it ends is about to be
\* determined.
InitCamp ==
    /\ store = <<>>
    /\ Idle
    /\ PageIdle
    /\ StaffIdle
    /\ approved_daily_food_stock = 0
    /\ daily_food_per_camper = 1
    /\ today \in 0..MaxDay
    /\ s_date \in 0..MaxDay
    /\ e_date \in s_date..MaxDay
    /\ has_leader \in BOOLEAN
    /\ n_campers \in 0..MaxCampers
    /\ food_sufficient \in BOOLEAN
    /\ status = "none"

DetermineStatus ==
    /\ status = "none"
    /\ status' = determine_status(today, s_date, e_date, has_leader,
                                  n_campers, food_sufficient)
    /\ UNCHANGED <<today, s_date, e_date, has_leader, n_campers,
                   food_sufficient, approved_daily_food_stock,
                   daily_food_per_camper>>
    /\ UNCHANGED <<chatVars, pageVars, notifVars, leaderVars>>

NextCamp == DetermineStatus

SpecCamp == InitCamp /\ [][NextCamp]_vars

\* The camp has a leader, at least MIN_CAMPERS campers and sufficient food.
Requirements == has_leader /\ n_campers >= MIN_CAMPERS /\ food_sufficient

\* C20: for s_date <= e_date the status is: of a future camp PLANNED
\* without a leader, else NO_CAMPERS below MIN_CAMPERS campers, else
\* INSUFFICIENT_FOOD without sufficient food, else READY; of a running camp
\* IN_PROGRESS when the three requirements hold, else CANCELLED; of a past
\* camp COMPLETED when they hold, else CANCELLED.
C20_StatusTable ==
    (status # "none" /\ s_date <= e_date) =>
        /\ today < s_date =>
              /\ ~has_leader => status = PLANNED
              /\ (has_leader /\ n_campers < MIN_CAMPERS)
                    => status = NO_CAMPERS
              /\ (has_leader /\ n_campers >= MIN_CAMPERS /\ ~food_sufficient)
                    => status = INSUFFICIENT_FOOD
              /\ Requirements => status = READY
        /\ (s_date <= today /\ today <= e_date) =>
              status = (IF Requirements THEN IN_PROGRESS ELSE CANCELLED)
        /\ e_date < today =>
              status = (IF Requirements THEN COMPLETED ELSE CANCELLED)

\* C20 witness: a future camp with a leader, no camper and not enough food
\* has been given NO_CAMPERS.
C20_Witness ==
    /\ today < s_date
    /\ has_leader
    /\ n_campers < MIN_CAMPERS
    /\ ~food_sufficient
    /\ status = NO_CAMPERS

\* ------------------------------------------------- claims C21 .. C30

\* The ids of a result.
Ids(w) == {w[i] : i \in DOMAIN w}

\* The n largest elements of a set of ids, or all when it has fewer.
Largest(S, n) == {i \in S : Cardinality({j \in S : j > i}) < n}

\* C21: when a chat is opened history_offset is set to 0, the initial
\* window is the messages_per_page messages of the conversation with the
\* largest ids (all of them when there are fewer), and last_msg is set to
\* the maximum id of the window, or to 0 when the conversation is empty.
C21_InitialWindow ==
    [][/\ (mpc # "g_update" /\ mpc' = "g_update") => history_offset' = 0
       /\ (mpc = "g_query" /\ mpc' = "g_show") =>
             Ids(messages') = Largest(Conv(store, Me, arg), messages_per_page)
       /\ (mpc = "g_show" /\ mpc' = "g_start") =>
             /\ \A i \in Ids(messages) : i <= last_msg'
             /\ last_msg' \in Ids(messages) \cup {0}
             /\ Ids(messages) = {} => last_msg' = 0]_vars

\* C22: whenever the input thread is back in the conversation-list menu
\* after a chat was closed, the session state is cleared: chatting is
\* false, recipient_id is None and last_msg is 0, whatever the poller
\* threads do meanwhile.
C22_SessionCleared ==
    (mpc = "menu" /\ opens > 0) =>
        (~chatting /\ recipient_id = None /\ last_msg = 0)

\* One conversation of Me with every other account, left in the table by
\* earlier sessions: a message of each partner, one per second, all read.
Threads ==
    [i \in 1..Cardinality(Accounts \ {Me}) |->
        [sender |-> i + 1, recipient |-> Me, body |-> i, created_at |-> i,
         is_read |-> TRUE]]

InitList == store = Threads /\ Idle /\ PageIdle /\ CampIdle /\ StaffIdle

\* The menus of run on a conversation list longer than a page, with chats
\* opened and closed, accounts disabled and enabled, and other users
\* sending, every message in a second of its own.
NextList ==
    \/ \E in \in MenuTyped : MenuLine(in)
    \/ \E in \in MenuTyped : UsersLine(in)
    \/ GUpdate
    \/ GQuery
    \/ GShow
    \/ GStart
    \/ ChatClose
    \/ ChatCleanup
    \/ \E s \in Others : EnvSend(s, FALSE)
    \/ \E u \in Others : ToggleDisabled(u)

SpecList == InitList /\ [][NextList]_vars

\* C23: whenever the conversation list is about to be rendered, chat_page
\* is within 0 .. max(0, total_pages - 1) with total_pages =
\* ceil(total_chats / chats_per_page), so a user with a listed conversation
\* is never shown an empty page.
C23_ChatPageInRange ==
    mpc = "menu" =>
        LET total == total_chats(store, disabled, Me)
            total_pages == CHOOSE k \in 0..total :
                              /\ k * chats_per_page >= total
                              /\ (k - 1) * chats_per_page < total
        IN /\ chat_page >= 0
           /\ chat_page <= (IF total_pages > 0 THEN total_pages - 1 ELSE 0)
           /\ total > 0 =>
                 \A cs \in chats(store, disabled, Me, chats_per_page,
                                 chat_page * chats_per_page) : cs # <<>>

\* The ids of the entries of a log printed by one of the sources srcs.
IdsBy(log, srcs) == {log[i].id : i \in {j \in DOMAIN log : log[j].src \in srcs}}

\* C24: /clear prints again exactly the messages loaded so far in the
\* session (the initial window and the /more windows), in ascending order;
\* it writes nothing and changes neither last_msg nor history_offset.
C24_ClearReprintsLoaded ==
    [][ChatClear =>
          /\ IdsBy(shown', {"clear"}) = IdsBy(shown, {"window", "more"})
          /\ \A i, j \in DOMAIN shown' :
                (i < j /\ shown'[i].src = "clear" /\ shown'[j].src = "clear")
                    => shown'[i].id < shown'[j].id
          /\ store' = store
          /\ last_msg' = last_msg
          /\ history_offset' = history_offset]_vars

\* ------------------------------------------------ send_message's lock

\* self.database_lock: only send_message acquires it, and only the input
\* thread calls send_message, so the lock is held exactly while the input
\* thread is inside send_message.
database_lock == IF mpc = "send" THEN "input" ELSE "free"

\* send_message: with self.database_lock (the lock is free: acquired at
\* once).
SendAcquire ==
    /\ mpc = "input"
    /\ news < MaxNew
    /\ mpc' = "send"
    /\ UNCHANGED <<store, disabled, wlock, arg, messages, opens, shown, news>>
    /\ UNCHANGED <<ifaceVars, pollVars, stmt>>
    /\ UNCHANGED <<menuVars, utilVars>>

\* send_message: the INSERT (which waits for SQLite's write transaction)
\* and its commit, then the release of database_lock.
SendInsert ==
    /\ mpc = "send"
    /\ wlock = 0
    /\ store' = send_message(store, Me, Text(store), arg, Stamp(store, FALSE))
    /\ news' = news + 1
    /\ mpc' = "input"
    /\ UNCHANGED <<disabled, wlock, arg, messages, opens, shown>>
    /\ UNCHANGED <<ifaceVars, pollVars, stmt>>
    /\ UNCHANGED <<menuVars, utilVars>>

\* The threads of the last chat of a run, send_message in its two steps;
\* every message is sent in a second of its own.
NextLock ==
    \/ \E p \in Others : OpenChat(p)
    \/ GUpdate
    \/ GQuery
    \/ GShow
    \/ GStart
    \/ SendAcquire
    \/ SendInsert
    \/ ChatClose
    \/ ChatCleanup
    \/ MenuQuit
    \/ \E k \in Pollers : PTest(k)
    \/ \E k \in Pollers : PQuery(k)
    \/ \E k \in Pollers : PShow(k)
    \/ \E k \in Pollers : PAdvance(k)
    \/ \E k \in Pollers : PCommit(k)
    \/ \E s \in Others : EnvSend(s, FALSE)

SpecLock == InitHist /\ [][NextLock]_vars

\* C25: at most the one thread that calls send_message holds database_lock;
\* the poller's query and its mark-read do not wait for it: while a send
\* holds the lock a poller at its query can query and a poller at a row can
\* render and mark it; and a send and a mark-read that interleave both take
\* effect: the insert adds the new row and leaves every other row as it is,
\* the poller's commit makes its marked rows read and drops no row.
C25_SendLockOnly ==
    [][/\ SendAcquire => (database_lock = "free" /\ database_lock' = "input")
       /\ \A k \in Pollers :
             database_lock = "input" =>
                /\ ppc[k] = "query" => ENABLED PQuery(k)
                /\ (ppc[k] = "show" /\ wlock \in {0, k}) => ENABLED PShow(k)
       /\ SendInsert =>
             /\ database_lock' = "free"
             /\ Len(store') = Len(store) + 1
             /\ store'[Len(store')].sender = Me
             /\ store'[Len(store')].recipient = recipient_id
             /\ \A i \in DOMAIN store : store'[i] = store[i]
       /\ \A k \in Pollers :
             PCommit(k) =>
                /\ Len(store') = Len(store)
                /\ \A i \in marks[k] : store'[i].is_read]_vars

\* C25 witness: a send_message holds database_lock while a poller's
\* iteration has rendered a message of the partner and holds its mark-read
\* uncommitted.
C25_Witness ==
    /\ database_lock = "input"
    /\ \E k \in Pollers :
          /\ wlock = k
          /\ marks[k] # {}
          /\ ppc[k] \in {"advance", "commit"}

\* ------------------------------------------------ a camp over its days

\* A camp of the camps table with its campers, before its first day or on
\* it; its status has not been asked for yet.
InitCampLife ==
    /\ store = <<>>
    /\ Idle
    /\ PageIdle
    /\ StaffIdle
    /\ today = 0
    /\ s_date \in 0..MaxDay
    /\ e_date \in s_date..MaxDay
    /\ has_leader \in BOOLEAN
    /\ n_campers \in 0..MaxCampers
    /\ approved_daily_food_stock \in 0..MaxStock
    /\ daily_food_per_camper = 1
    /\ food_sufficient = FALSE
    /\ status = "none"

\* get_camp_statuses for the camp: the status is determined from the row as
\* it is today.
GetCampStatuses ==
    /\ LET food_needed == daily_food_per_camper * n_campers
           sufficient == food_needed <= approved_daily_food_stock
       IN /\ food_sufficient' = sufficient
          /\ status' = determine_status(today, s_date, e_date, has_leader,
                                        n_campers, sufficient)
    /\ UNCHANGED <<today, s_date, e_date, has_leader, n_campers,
                   approved_daily_food_stock, daily_food_per_camper>>
    /\ UNCHANGED <<chatVars, pageVars, notifVars, leaderVars>>

\* show_camp_details, option B on a camp that has not ended:
\* top_up_food_stock(camp_id, additional_stock).
TopUpFoodStock(additional_stock) ==
    /\ ~(e_date < today)
    /\ additional_stock >= 0
    /\ approved_daily_food_stock + additional_stock <= MaxStock
    /\ approved_daily_food_stock' = approved_daily_food_stock + additional_stock
    /\ UNCHANGED <<today, s_date, e_date, has_leader, n_campers,
                   food_sufficient, status, daily_food_per_camper>>
    /\ UNCHANGED <<chatVars, pageVars, notifVars, leaderVars>>

\* show_leader_menu, choice 1 on a camp of Camp.get_unassigned (no leader,
\* start_date >= today): camp.assign_leader(leader_id).
AssignLeader ==
    /\ ~has_leader
    /\ s_date >= today
    /\ has_leader' = TRUE
    /\ UNCHANGED <<today, s_date, e_date, n_campers, food_sufficient, status,
                   approved_daily_food_stock, daily_food_per_camper>>
    /\ UNCHANGED <<chatVars, pageVars, notifVars, leaderVars>>

\* date.today() moves on to the next day.
NextDay ==
    /\ today < MaxDay
    /\ today' = today + 1
    /\ UNCHANGED <<s_date, e_date, has_leader, n_campers, food_sufficient,
                   status, approved_daily_food_stock, daily_food_per_camper>>
    /\ UNCHANGED <<chatVars, pageVars, notifVars, leaderVars>>

NextCampLife ==
    \/ GetCampStatuses
    \/ \E a \in 0..MaxStock : TopUpFoodStock(a)
    \/ AssignLeader
    \/ NextDay

SpecCampLife == InitCampLife /\ [][NextCampLife]_vars

\* C26: a camp whose status on or after its start date is CANCELLED has the
\* status CANCELLED whenever it is determined later, whatever was changed
\* meanwhile in its leader, its campers or its food stock.
C26_CancelledStays ==
    [][(status = CANCELLED /\ s_date <= today) => status' = CANCELLED]_vars

\* ------------------------------------------------ coordinator notifications

Camps == {1, 2}
food_type == "not_enough_food"
money_type == "low_daily_payment_rate"

\* SELECT COUNT(1) FROM notifications
\* WHERE camp_id = ? AND type = ? AND is_read = 0
unread_count(tbl, camp_id, type) ==
    Cardinality({i \in DOMAIN tbl : /\ tbl[i].camp_id = camp_id
                                    /\ tbl[i].type = type
                                    /\ ~tbl[i].is_read})

\* nofification_generator at a camp of its loop: the camp is short of food,
\* or else its payment rate is low (the type is the branch the camp's row
\* takes), and the session's connection counts the unread notifications of
\* the camp and type. The statement is a read; the connection opens its
\* write transaction at the INSERT.
GenCheck(s, camp_id, type) ==
    /\ gen[s].pc = "idle"
    /\ Len(notifications) < MaxRows
    /\ gen' = [gen EXCEPT ![s] =
                 [pc |-> "checked", camp_id |-> camp_id, type |-> type,
                  cnt |-> unread_count(notifications, camp_id, type)]]
    /\ UNCHANGED notifications
    /\ UNCHANGED <<chatVars, pageVars, campVars, leaderVars>>

\* if cur.fetchone()[0] == 0: INSERT INTO notifications (..., is_read)
\* VALUES (..., 0), committed at the end of the with block.
GenInsert(s) ==
    /\ gen[s].pc = "checked"
    /\ notifications' =
         IF gen[s].cnt = 0
         THEN Append(notifications, [camp_id |-> gen[s].camp_id,
                                     type |-> gen[s].type,
                                     is_read |-> FALSE])
         ELSE notifications
    /\ gen' = [gen EXCEPT ![s] = [pc |-> "idle"]]
    /\ UNCHANGED <<chatVars, pageVars, campVars, leaderVars>>

\* change_notification_status(notification_id, 1)
MarkRead(notification_id) ==
    /\ notification_id \in DOMAIN notifications
    /\ ~notifications[notification_id].is_read
    /\ notifications' = [notifications EXCEPT ![notification_id].is_read = TRUE]
    /\ UNCHANGED gen
    /\ UNCHANGED <<chatVars, pageVars, campVars, leaderVars>>

InitNotif ==
    /\ store = <<>>
    /\ Idle
    /\ PageIdle
    /\ CampIdle
    /\ StaffIdle

NextNotif ==
    \/ \E s \in Sessions, c \in Camps, t \in {food_type, money_type} :
          GenCheck(s, c, t)
    \/ \E s \in Sessions : GenInsert(s)
    \/ \E i \in 1..MaxRows : MarkRead(i)

SpecNotif == InitNotif /\ [][NextNotif]_vars

\* C27: the notifications table holds at most one unread notification for
\* each pair (camp, type), whatever the interleaving of the generator runs of
\* the coordinator sessions and of the notifications being marked read.
C27_OneUnreadPerPair ==
    \A c \in Camps, t \in {food_type, money_type} :
        unread_count(notifications, c, t) <= 1

\* ------------------------------------------------ pollers after the run

\* The poller threads are scheduled: a poller that can take its next
\* statement (loop test, SELECT, render, advance, commit) takes it.
PollerFairness ==
    \A k \in Pollers :
        /\ WF_vars(PTest(k))
        /\ WF_vars(PQuery(k))
        /\ WF_vars(PShow(k))
        /\ WF_vars(PAdvance(k))
        /\ WF_vars(PCommit(k))

SpecErrFair == SpecErr /\ PollerFairness

SpecIntFair == SpecInt /\ PollerFairness

\* run has returned: by the quit command or a keyboard interrupt ("exited")
\* or by a storage error caught in run ("failed").
Returned == mpc \in {"exited", "failed"}

\* No poller is in its loop.
PollersStopped == \A k \in Pollers : ppc[k] \in {"unborn", "done"}

\* C28: after run has returned, for whatever reason, every poller thread it
\* started eventually stops polling: from some point on no poller queries the
\* store, renders a message or marks a message read.
C28_PollersStop == [](Returned => <>[]PollersStopped)

\* ------------------------------------------------ rendering and partners

\* The entries a step adds to the screen.
Added(log, log2) ==
    {i \in DOMAIN log2 : i > Len(log) \/ log2[i] # log[i]}

\* C29: every message rendered while a chat with partner P is open (by the
\* initial window, by /more, by /clear or by a poller) belongs to the
\* conversation between the current user and P, and a poller marks a message
\* read only if its sender is the partner of the open chat and its recipient
\* is the current user, also when a poller runs on while the user closes a
\* chat and opens a chat with another partner.
C29_RenderedOfOpenChat ==
    [][/\ recipient_id # None =>
             \A i \in Added(shown, shown') :
                 shown'[i].id \in Conv(store, Me, recipient_id)
       /\ \A k \in Pollers :
             \A row \in marks'[k] \ marks[k] :
                 /\ store[row].sender = recipient_id
                 /\ store[row].recipient = Me]_vars

\* ------------------------------------------------ leaders selecting camps

LCamps == 1..MaxCamps

\* Camp.get_unassigned: SELECT * FROM camps
\* WHERE leader_id IS NULL AND start_date >= today
get_unassigned(ld, sd, now) ==
    {c \in DOMAIN ld : ld[c] = None /\ sd[c] >= now}

\* Camp.get_assigned_camps: SELECT * FROM camps WHERE leader_id = ?
get_assigned_camps(ld, l) == {c \in DOMAIN ld : ld[c] = l}

\* A check that lets two camps share a day.
validate_camp_choice_Strict(ld, sd, ed, l, selected_camp) ==
    \A camp \in get_assigned_camps(ld, l) :
        ~(sd[selected_camp] < ed[camp] /\ sd[camp] < ed[selected_camp])

\* validate_camp_choice: False at an assigned camp with
\* selected.start_date <= camp.end_date and camp.start_date <= selected.end_date
validate_camp_choice(ld, sd, ed, l, selected_camp) ==
    \A camp \in get_assigned_camps(ld, l) :
        ~(sd[selected_camp] <= ed[camp] /\ sd[camp] <= ed[selected_camp])

\* The camps table with no leader assigned, each camp with a date range (the
\* camps are numbered by start date, then by end date; the number of a camp
\* plays no part in the selection); today is the first day or the second;
\* the leaders are at their menu.
InitLeader ==
    /\ store = <<>>
    /\ Idle
    /\ PageIdle
    /\ NotifIdle
    /\ today \in 0..1
    /\ s_date = 0
    /\ e_date = 0
    /\ has_leader = FALSE
    /\ n_campers = 0
    /\ food_sufficient = FALSE
    /\ status = "none"
    /\ approved_daily_food_stock = 0
    /\ daily_food_per_camper = 1
    /\ leader_id = [c \in LCamps |-> None]
    /\ start_date \in [LCamps -> 0..MaxDate]
    /\ end_date \in [LCamps -> 0..MaxDate]
    /\ \A c \in LCamps : start_date[c] <= end_date[c]
    /\ \A c \in LCamps \ {MaxCamps} :
          \/ start_date[c] < start_date[c + 1]
          \/ /\ start_date[c] = start_date[c + 1]
             /\ end_date[c] <= end_date[c + 1]
    /\ sel = [l \in Leaders |-> [pc |-> "idle"]]

\* show_leader_menu, choice 1: select_camp_to_supervise lists the unassigned
\* camps; with none it returns None.
SelectList(l) ==
    /\ sel[l].pc = "idle"
    /\ LET unassigned == get_unassigned(leader_id, start_date, today)
       IN sel' = [sel EXCEPT ![l] =
                    IF unassigned = {} THEN [pc |-> "idle"]
                    ELSE [pc |-> "list", unassigned |-> unassigned]]
    /\ UNCHANGED <<leader_id, start_date, end_date>>
    /\ UNCHANGED <<chatVars, pageVars, campVars, notifVars>>

\* The leader types the number of a listed camp; validate_camp_choice reads
\* the leader's assigned camps.
SelectChoose(l, choice) ==
    /\ sel[l].pc = "list"
    /\ choice \in sel[l].unassigned
    /\ sel' = [sel EXCEPT ![l] =
                 IF validate_camp_choice(leader_id, start_date, end_date,
                                         l, choice)
                 THEN [pc |-> "valid", selected_camp |-> choice]
                 ELSE [pc |-> "conflict", selected_camp |-> choice]]
    /\ UNCHANGED <<leader_id, start_date, end_date>>
    /\ UNCHANGED <<chatVars, pageVars, campVars, notifVars>>

\* Q at the list, or any answer to "select a different camp?" after a
\* conflict: the selection returns None or starts again from the list.
SelectCancel(l) ==
    /\ sel[l].pc \in {"list", "conflict"}
    /\ sel' = [sel EXCEPT ![l] = [pc |-> "idle"]]
    /\ UNCHANGED <<leader_id, start_date, end_date>>
    /\ UNCHANGED <<chatVars, pageVars, campVars, notifVars>>

\* Enter after "No conflicts!": the selection returns the camp and
\* show_leader_menu calls camp.assign_leader(leader_id).
SelectAssign(l) ==
    /\ sel[l].pc = "valid"
    /\ leader_id' = [leader_id EXCEPT ![sel[l].selected_camp] = l]
    /\ sel' = [sel EXCEPT ![l] = [pc |-> "idle"]]
    /\ UNCHANGED <<start_date, end_date>>
    /\ UNCHANGED <<chatVars, pageVars, campVars, notifVars>>

NextLeader ==
    \/ \E l \in Leaders : SelectList(l)
    \/ \E l \in Leaders, c \in LCamps : SelectChoose(l, c)
    \/ \E l \in Leaders : SelectCancel(l)
    \/ \E l \in Leaders : SelectAssign(l)

SpecLeader == InitLeader /\ [][NextLeader]_vars

\* Two camps share a day.
Overlap(c1, c2) ==
    start_date[c1] <= end_date[c2] /\ start_date[c2] <= end_date[c1]

\* C30: no leader is assigned to two camps whose date ranges overlap, and a
\* selection rejected for a date conflict leaves the leader of every camp
\* unchanged.
C30_NoOverlappingCamps ==
    /\ [](\A c1, c2 \in LCamps :
            (c1 # c2 /\ leader_id[c1] # None /\ leader_id[c1] = leader_id[c2])
                => ~Overlap(c1, c2))
    /\ [][\A l \in Leaders :
            (sel[l].pc = "list" /\ sel'[l].pc = "conflict")
                => leader_id' = leader_id]_vars

\* A leader supervises two camps and is refused a third, which shares a day
\* with one of them.
C30_Witness ==
    \E l \in Leaders :
        /\ sel[l].pc = "conflict"
        /\ Cardinality(get_assigned_camps(leader_id, l)) >= 2
        /\ \E c \in get_assigned_camps(leader_id, l) :
              Overlap(c, sel[l].selected_camp)

====
